---- MODULE Spec2Model ----
(***************************************************************************)
(* ChapterSmith backend: the text pipeline (resolve_chapter_pov,           *)
(* compute_word_count, enforce_word_range, grounded_chapter_generator) and *)
(* the project/chapter store handlers of src/main.py, with the schema      *)
(* constraints of src/schemas.py.                                          *)
(*                                                                         *)
(* Texts are TLA+ strings over an ASCII alphabet; a Python str slice       *)
(* s[a:b] is SubSeq(s, a + 1, b).  The two characters of the source that   *)
(* are not ASCII are outside that alphabet: the bullet in the strip set of *)
(* line 95 is left out (no outline of the model holds one), and the        *)
(* accented letter of line 163 is written "e" (one non-blank character     *)
(* either way).                                                            *)
(*                                                                         *)
(* Only({ e(v) : v \in {x} }) reads "let v be x in e(v)", with x evaluated *)
(* once.                                                                   *)
(***************************************************************************)
EXTENDS Integers, Sequences, FiniteSets, TLC

VARIABLES
    projects,   \* the "project" collection: id -> document
    nextId,     \* the next identifier create_document hands out
    clock,      \* datetime.now() as a logical time: one tick per write to the store
    reqs,       \* the requests in flight and their responses, one per worker
    issued,     \* the number of requests received so far
    created,    \* history: id -> the chapter_count given at creation
    call        \* the pure-function harness: a call and its result

vars == <<projects, nextId, clock, reqs, issued, created, call>>

-----------------------------------------------------------------------------
(* Strings *)

Only(S) == CHOOSE v \in S : TRUE

Char(s, i) == SubSeq(s, i, i)

\* The whitespace str.split() and str.strip() act on.
Whitespace == {" ", "\t", "\n"}

IsSpace(c) == c \in Whitespace

\* s repeated n times (builds the long inputs).
RECURSIVE Rep(_, _)
Rep(s, n) ==
    IF n = 0 THEN ""
    ELSE IF n = 1 THEN s
    ELSE Only({ IF n % 2 = 0 THEN h \o h ELSE h \o h \o s : h \in {Rep(s, n \div 2)} })

IsWordStart(s, i) ==
    /\ ~IsSpace(Char(s, i))
    /\ (i = 1 \/ IsSpace(Char(s, i - 1)))

IsWordEnd(s, i) ==
    /\ ~IsSpace(Char(s, i))
    /\ (i = Len(s) \/ IsSpace(Char(s, i + 1)))

\* The positions in lo..hi where a word of s starts, in order.
RECURSIVE WordStarts(_, _, _)
WordStarts(s, lo, hi) ==
    IF lo > hi THEN <<>>
    ELSE IF lo = hi THEN (IF IsWordStart(s, lo) THEN <<lo>> ELSE <<>>)
    ELSE WordStarts(s, lo, (lo + hi) \div 2) \o WordStarts(s, ((lo + hi) \div 2) + 1, hi)

RECURSIVE WordEnds(_, _, _)
WordEnds(s, lo, hi) ==
    IF lo > hi THEN <<>>
    ELSE IF lo = hi THEN (IF IsWordEnd(s, lo) THEN <<lo>> ELSE <<>>)
    ELSE WordEnds(s, lo, (lo + hi) \div 2) \o WordEnds(s, ((lo + hi) \div 2) + 1, hi)

\* str.split(): the maximal runs of non-whitespace characters, in order.
Split(s) ==
    Only({ [k \in 1..Len(st) |-> SubSeq(s, st[k], en[k])] :
           st \in {WordStarts(s, 1, Len(s))}, en \in {WordEnds(s, 1, Len(s))} })

RECURSIVE JoinRange(_, _, _, _)
JoinRange(sep, ws, lo, hi) ==
    IF lo > hi THEN ""
    ELSE IF lo = hi THEN ws[lo]
    ELSE JoinRange(sep, ws, lo, (lo + hi) \div 2) \o sep
            \o JoinRange(sep, ws, ((lo + hi) \div 2) + 1, hi)

\* sep.join(ws)
Join(sep, ws) == JoinRange(sep, ws, 1, Len(ws))

\* ws[:n]
Take(ws, n) == SubSeq(ws, 1, IF Len(ws) < n THEN Len(ws) ELSE n)

\* The last position in lo..hi of s that holds c; 0 when there is none.
RECURSIVE LastIn(_, _, _, _)
LastIn(s, c, lo, hi) ==
    IF lo > hi THEN 0
    ELSE IF lo = hi THEN (IF Char(s, lo) = c THEN lo ELSE 0)
    ELSE Only({ IF r # 0 THEN r ELSE LastIn(s, c, lo, (lo + hi) \div 2) :
                r \in {LastIn(s, c, ((lo + hi) \div 2) + 1, hi)} })

\* s.rfind(c): the 0-based index of the last c, -1 when there is none.
rfind(s, c) == LastIn(s, c, 1, Len(s)) - 1

\* The first / last position in lo..hi of s whose character is not in cs; 0 when none.
RECURSIVE FirstNotIn(_, _, _, _)
FirstNotIn(s, cs, lo, hi) ==
    IF lo > hi THEN 0
    ELSE IF lo = hi THEN (IF Char(s, lo) \notin cs THEN lo ELSE 0)
    ELSE Only({ IF r # 0 THEN r ELSE FirstNotIn(s, cs, ((lo + hi) \div 2) + 1, hi) :
                r \in {FirstNotIn(s, cs, lo, (lo + hi) \div 2)} })

RECURSIVE LastNotIn(_, _, _, _)
LastNotIn(s, cs, lo, hi) ==
    IF lo > hi THEN 0
    ELSE IF lo = hi THEN (IF Char(s, lo) \notin cs THEN lo ELSE 0)
    ELSE Only({ IF r # 0 THEN r ELSE LastNotIn(s, cs, lo, (lo + hi) \div 2) :
                r \in {LastNotIn(s, cs, ((lo + hi) \div 2) + 1, hi)} })

\* s.strip(cs): s without its leading and trailing characters of cs.
strip(s, cs) ==
    Only({ IF a = 0 THEN "" ELSE SubSeq(s, a, LastNotIn(s, cs, 1, Len(s))) :
           a \in {FirstNotIn(s, cs, 1, Len(s))} })

\* The positions in lo..hi of s that hold a line break, in order.
RECURSIVE Breaks(_, _, _)
Breaks(s, lo, hi) ==
    IF lo > hi THEN <<>>
    ELSE IF lo = hi THEN (IF Char(s, lo) = "\n" THEN <<lo>> ELSE <<>>)
    ELSE Breaks(s, lo, (lo + hi) \div 2) \o Breaks(s, ((lo + hi) \div 2) + 1, hi)

\* str.splitlines(): the pieces between line breaks; a final break opens no line.
splitlines(s) ==
    Only({ [k \in 1..(Len(b) + (IF Len(b) > 0 /\ b[Len(b)] = Len(s) THEN 0
                                 ELSE IF Len(s) = 0 THEN 0 ELSE 1)) |->
              SubSeq(s, (IF k = 1 THEN 1 ELSE b[k - 1] + 1),
                        (IF k > Len(b) THEN Len(s) ELSE b[k] - 1))] :
           b \in {Breaks(s, 1, Len(s))} })

\* [f(x) for x in seq if keep(x)]
SelectMap(seq, Keep(_), F(_)) ==
    Only({ [k \in 1..Len(kept) |-> F(kept[k])] : kept \in {SelectSeq(seq, Keep)} })

-----------------------------------------------------------------------------
(* The text pipeline: src/main.py lines 38-167 *)

\* The resolver with the parity of dual the wrong way round.
resolve_chapter_pov_swapped(pov_mode, chapter_number) ==
    IF pov_mode = "female" THEN "female"
    ELSE IF pov_mode = "male" THEN "male"
    ELSE IF chapter_number % 2 = 1 THEN "male" ELSE "female"

resolve_chapter_pov(pov_mode, chapter_number) ==
    IF pov_mode = "female" THEN "female"
    ELSE IF pov_mode = "male" THEN "male"
    ELSE IF chapter_number % 2 = 1 THEN "female" ELSE "male"

\* len([w for w in text.split() if w.strip()]): no word of split() strips to nothing.
compute_word_count(text) ==
    Only({ Len(SelectSeq(Split(t), LAMBDA w : strip(w, Whitespace) # "")) : t \in {text} })

target_min == 1400

target_max == 1800

\* target_max - 200 of line 73
cut_back == 200

filler ==
    " I took my time and described what happened in a clear way. I kept the focus on"
    \o " real details, steady thoughts, and simple actions. I stayed in first person and"
    \o " let each moment breathe without sounding poetic or dramatic."

\* The loop of lines 65-67.
RECURSIVE pad_words(_)
pad_words(words) ==
    IF Len(words) < target_min
    THEN Only({ pad_words(w) : w \in {words \o Split(filler)} })
    ELSE words

\* Lines 70-75: the cut at target_max words, then back to the last period.
trim_words(words) ==
    Only({ Only({ IF last_dot # -1 /\ last_dot > target_max - cut_back
                  THEN SubSeq(trimmed, 1, last_dot + 1)
                  ELSE trimmed :
                  last_dot \in {rfind(trimmed, ".")} }) :
           trimmed \in {Join(" ", Take(words, target_max))} })

enforce_word_range(text) ==
    Only({ IF Len(words) < target_min
           THEN Join(" ", Take(pad_words(words), target_max))
           ELSE IF Len(words) > target_max
           THEN trim_words(words)
           ELSE Join(" ", Take(words, target_max)) :
           words \in {Only({ Split(t) : t \in {text} })} })

header(pov) ==
    "This chapter follows the outline and continues the story in a clear, human voice. "
    \o "I speak in first person as the " \o pov \o " lead. The tone is natural and steady. "
    \o "The setting and actions are grounded in small details."

\* The characters of p.strip("- \n ") on line 95.
BulletChars == {"-", " ", "\n"}

\* Line 95, and the fallback of lines 96-97.
outline_parts(outline) ==
    Only({ IF Len(parts) = 0
           THEN <<"The story setup is simple. I meet the other lead and a problem starts.">>
           ELSE parts :
           parts \in {SelectMap(splitlines(outline),
                                LAMBDA p : strip(p, Whitespace) # "",
                                LAMBDA p : strip(p, BulletChars))} })

genre_note(genre) ==
    IF genre = "billionaire"
    THEN " There is a quiet tension between wealth and loneliness. Power shows up in small practical ways."
    ELSE IF genre = "werewolf"
    THEN " Instinct and duty pull at me. I notice heat, breath, and the press of the crowd without exaggeration."
    ELSE IF genre = "mafia"
    THEN " Danger is present but not sensational. Trust is fragile and every choice has a cost."
    ELSE ""

intro(chapter_idx, chapter_total, genre) ==
    "It is chapter " \o ToString(chapter_idx) \o " of " \o ToString(chapter_total)
    \o ". I keep the pacing even and I move from one scene to the next"
    \o " without jumps. I react in real time with simple thoughts and clean sentences."
    \o genre_note(genre)

\* parts[:8] of line 121
max_scenes == 8

\* The five lines of scene i (lines 122-137).
scene(i, p) ==
    << "Scene " \o ToString(i) \o ": " \o p
          \o ". I look for what matters right now. I describe only what I would notice.",
       "I watch faces and hands. I listen for tone. I keep my feelings steady and honest.",
       "I let the moment slow enough to understand it, then I make a choice that moves the scene forward.",
       "Dialogue feels natural. I speak in clear sentences. I avoid dramatic fragments and fancy images.",
       "My body tells a simple truth: my breath changes, my shoulders tense, my hands warm or cool." >>

RECURSIVE scenes(_, _)
scenes(parts, i) ==
    IF i > Len(parts) \/ i > max_scenes THEN <<>>
    ELSE scene(i, parts[i]) \o scenes(parts, i + 1)

closing ==
    << "I stay consistent with point of view. I keep it personal and close. I do not summarize the story.",
       "When I think of the other lead, I admit what I want and what I fear, even if I do not say it out loud.",
       "The chapter closes on a clean beat. I do not end with a slogan. I end with a small decision or a question that matters." >>

\* lines 86-151
chapter_lines(parts, chapter_idx, chapter_total, pov, genre) ==
    <<header(pov), intro(chapter_idx, chapter_total, genre)>> \o scenes(parts, 1) \o closing

\* the running length the loop of line 155 stops at
expand_until == 1450

elaboration(step) ==
    " I take one more careful step in this situation: " \o step
    \o ". I ask a direct question, I listen,"
    \o " and I notice how my chest feels and how my thoughts settle. I choose clear words and I keep the pace even."
    \o " I avoid cliches. I use plain language. I stay with the present scene and I let the next moment lead me."

\* The loop of lines 155-164; idx counts from 0.
RECURSIVE expand(_, _, _)
expand(base, cycle, idx) ==
    IF compute_word_count(base) < expand_until
    THEN Only({ expand(b, cycle, idx + 1) :
                b \in {base \o elaboration(cycle[(idx % Len(cycle)) + 1])} })
    ELSE base

grounded_chapter_generator(outline, chapter_idx, chapter_total, pov, genre) ==
    Only({ Only({ enforce_word_range(expand(base, IF Len(parts) = 0 THEN <<"progress">> ELSE parts, 0)) :
                  base \in {Join(" ", chapter_lines(parts, chapter_idx, chapter_total, pov, genre))} }) :
           parts \in {Only({ outline_parts(o) : o \in {outline} })} })

-----------------------------------------------------------------------------
(* Bounds and inputs *)

\* Requests received in a run.
MaxRequests == 4

\* Projects created in a run.
MaxProjects == 1

\* Concurrent request workers.
NumWorkers == 2

Workers == 1..NumWorkers

\* Optional[...] = None
None == "<None>"

\* A string ObjectId() rejects; the identifiers it accepts are 1, 2, ...
MalformedId == 0

\* One identifier more than is ever created: well formed, never matched.
IdChoices == MalformedId..(MaxProjects + 1)

min_chapters == 3

max_chapters == 6

CountChoices == {min_chapters - 1, min_chapters, max_chapters + 1}

PovModes == {"female", "male", "dual"}

StoreOutline == "A meets B.\nThey argue."

NumChoices == {0, 1, 2, max_chapters}

InstructionChoices == {None, " More tension. "}

TitleChoices == {None, "", "Retitled"}

TextChoices == {None, ""}

-----------------------------------------------------------------------------
(* Schemas: src/schemas.py *)

\* Chapter, lines 12-19
ValidChapter(c) ==
    /\ c.number >= 1
    /\ Len(c.title) >= 1
    /\ Len(c.text) >= 1
    /\ c.word_count >= 0
    /\ c.pov \in {"female", "male"}

\* Project with an upper limit of chapter_count one too high.
ValidProject_loose(p) ==
    /\ p.chapter_count >= min_chapters
    /\ p.chapter_count <= max_chapters + 1
    /\ p.pov_mode \in {"female", "male", "dual"}
    /\ p.genre \in {None, "billionaire", "werewolf", "mafia", "general"}
    /\ \A i \in 1..Len(p.chapters) : ValidChapter(p.chapters[i])

\* Project, lines 22-31
ValidProject(p) ==
    /\ p.chapter_count >= min_chapters
    /\ p.chapter_count <= max_chapters
    /\ p.pov_mode \in {"female", "male", "dual"}
    /\ p.genre \in {None, "billionaire", "werewolf", "mafia", "general"}
    /\ \A i \in 1..Len(p.chapters) : ValidChapter(p.chapters[i])

-----------------------------------------------------------------------------
(* The calls the handlers make on the text pipeline, tabulated: each is     *)
(* evaluated once, with the operators above, and looked up afterwards.      *)

GeneratorCalls ==
    { <<StoreOutline, n, t, pov, "general">> :
        n \in 1..min_chapters, t \in {min_chapters},
        pov \in {"female", "male"} }

generated ==
    [a \in GeneratorCalls |-> grounded_chapter_generator(a[1], a[2], a[3], a[4], a[5])]

\* Lines 264-268: the adjustment note, then the range again.
adjust(text, user_instructions) ==
    enforce_word_range(
        text \o " " \o "Adjustment note applied: " \o strip(user_instructions, Whitespace)
             \o " I keep the same plot and tone while refining moments.")

adjusted ==
    [a \in GeneratorCalls, ui \in (InstructionChoices \ {None, ""}) |-> adjust(generated[a], ui)]

enforced ==
    [t \in (TextChoices \ {None}) |-> enforce_word_range(t)]

StoredTexts ==
    {generated[a] : a \in GeneratorCalls}
        \cup {adjusted[a, ui] : a \in GeneratorCalls, ui \in (InstructionChoices \ {None, ""})}
        \cup {enforced[t] : t \in (TextChoices \ {None})}

word_count_of ==
    [t \in StoredTexts |-> compute_word_count(t)]

-----------------------------------------------------------------------------
(* The store and the handlers: src/main.py lines 200-370 *)

\* datetime.now(timezone.utc)
now == clock

Idle ==
    [pc |-> "idle", op |-> "", pid |-> MalformedId, num |-> 0,
     title |-> None, text |-> None, chapters |-> <<>>, status |-> ""]

\* A handler ends: by its return ("ok") or by the exception named.
Ended(op, pid, num, status) ==
    [Idle EXCEPT !.pc = "done", !.op = op, !.pid = pid, !.num = num, !.status = status]

\* A handler has fetched and computed, and is about to call update_one.
Writing(op, pid, num, title, text, chapters) ==
    [Idle EXCEPT !.pc = "write", !.op = op, !.pid = pid, !.num = num,
                 !.title = title, !.text = text, !.chapters = chapters]

\* A worker takes a request.
Receive(r) ==
    /\ reqs[r].pc \in {"idle", "done"}
    /\ issued < MaxRequests
    /\ issued' = issued + 1

\* ObjectId(project_id) raises on a malformed identifier (lines 227, 238, 248, ...).
IsObjectId(pid) == pid # MalformedId

Found(pid) == pid \in DOMAIN projects

\* create_document("project", project): insert_one, the new identifier returned.
create_document(project) ==
    /\ projects' = [i \in DOMAIN projects \cup {nextId} |->
                        IF i = nextId THEN project ELSE projects[i]]
    /\ nextId' = nextId + 1
    /\ clock' = clock + 1

create_project(r, chapter_count, pov_mode) ==
    /\ Receive(r)
    /\ LET project == [name |-> "Story", outline |-> StoreOutline,
                       chapter_count |-> chapter_count, pov_mode |-> pov_mode,
                       genre |-> None, rules |-> None, chapters |-> <<>>,
                       created_at |-> now, updated_at |-> now]
       IN IF ~ValidProject(project)
          THEN /\ reqs' = [reqs EXCEPT ![r] = Ended("create_project", MalformedId, 0, "ValidationError")]
               /\ UNCHANGED <<projects, nextId, clock, created>>
          ELSE /\ nextId <= MaxProjects
               /\ create_document(project)
               /\ created' = [i \in DOMAIN created \cup {nextId} |->
                                 IF i = nextId THEN chapter_count ELSE created[i]]
               /\ reqs' = [reqs EXCEPT ![r] = Ended("create_project", nextId, 0, "ok")]
    /\ UNCHANGED call

list_projects(r) ==
    /\ Receive(r)
    /\ reqs' = [reqs EXCEPT ![r] = Ended("list_projects", MalformedId, 0, "ok")]
    /\ UNCHANGED <<projects, nextId, clock, created, call>>

get_project(r, pid) ==
    /\ Receive(r)
    /\ reqs' = [reqs EXCEPT ![r] = Ended("get_project", pid, 0,
                    IF ~IsObjectId(pid) THEN "InvalidIdentifier"
                    ELSE IF ~Found(pid) THEN "NotFound" ELSE "ok")]
    /\ UNCHANGED <<projects, nextId, clock, created, call>>

\* {"deleted": res.deleted_count == 1}: "ok" whether or not a document went.
delete_project(r, pid) ==
    /\ Receive(r)
    /\ reqs' = [reqs EXCEPT ![r] = Ended("delete_project", pid, 0,
                    IF ~IsObjectId(pid) THEN "InvalidIdentifier" ELSE "ok")]
    /\ projects' = [i \in DOMAIN projects \ {pid} |-> projects[i]]
    /\ clock' = IF Found(pid) THEN clock + 1 ELSE clock
    /\ UNCHANGED <<nextId, created, call>>

\* Lines 261 and 310, 264-268.
chapter_text(project, ch_num, pov, user_instructions) ==
    LET a == <<project.outline, ch_num, project.chapter_count, pov,
               IF project.genre = None THEN "general" ELSE project.genre>>
    IN IF user_instructions \in {None, ""}
       THEN generated[a]
       ELSE adjusted[a, user_instructions]

\* Lines 260-280 and 309-315: the chapter dict of one generation.
new_chapter(project, ch_num, user_instructions, time) ==
    LET pov == resolve_chapter_pov(project.pov_mode, ch_num)
        text == chapter_text(project, ch_num, pov, user_instructions)
    IN [number |-> ch_num, title |-> "Chapter " \o ToString(ch_num), text |-> text,
        word_count |-> word_count_of[text], pov |-> pov,
        created_at |-> time, updated_at |-> time]

\* Line 257
out_of_range(ch_num, chapter_count) == ch_num < 1 \/ ch_num > chapter_count

\* next((i for i, c in enumerate(chapters) if c["number"] == n), None), 1-based; 0 is None.
index_of(chapters, n) ==
    IF \E i \in 1..Len(chapters) : chapters[i].number = n
    THEN CHOOSE i \in 1..Len(chapters) :
            /\ chapters[i].number = n
            /\ \A j \in 1..(i - 1) : chapters[j].number # n
    ELSE 0

\* Line 276: project.chapters holds Chapter models, which have no .get: the
\* first element tested raises AttributeError.
lookup_raises(chapters) == Len(chapters) > 0

\* Lines 282-285
upsert(chapters, ch) ==
    IF index_of(chapters, ch.number) = 0
    THEN Append(chapters, ch)
    ELSE [chapters EXCEPT ![index_of(chapters, ch.number)] = ch]

generate_chapter(r, pid, ch_num, user_instructions) ==
    /\ Receive(r)
    /\ reqs' = [reqs EXCEPT ![r] =
          IF ~IsObjectId(pid) THEN Ended("generate_chapter", pid, ch_num, "InvalidIdentifier")
          ELSE IF ~Found(pid) THEN Ended("generate_chapter", pid, ch_num, "NotFound")
          ELSE IF ~ValidProject(projects[pid])
               THEN Ended("generate_chapter", pid, ch_num, "ValidationError")
          ELSE IF out_of_range(ch_num, projects[pid].chapter_count)
               THEN Ended("generate_chapter", pid, ch_num, "InvalidRange")
          ELSE IF lookup_raises(projects[pid].chapters)
               THEN Ended("generate_chapter", pid, ch_num, "AttributeError")
          ELSE Writing("generate_chapter", pid, ch_num, None, None,
                       upsert(projects[pid].chapters,
                              new_chapter(projects[pid], ch_num, user_instructions, now)))]
    /\ UNCHANGED <<projects, nextId, clock, created, call>>

\* The loop of generate_all stopping one chapter short.
all_chapters_short(project, time) ==
    [n \in 1..(project.chapter_count - 1) |-> new_chapter(project, n, None, time)]

\* Lines 307-316
all_chapters(project, time) ==
    [n \in 1..project.chapter_count |-> new_chapter(project, n, None, time)]

generate_all(r, pid) ==
    /\ Receive(r)
    /\ reqs' = [reqs EXCEPT ![r] =
          IF ~IsObjectId(pid) THEN Ended("generate_all", pid, 0, "InvalidIdentifier")
          ELSE IF ~Found(pid) THEN Ended("generate_all", pid, 0, "NotFound")
          ELSE IF ~ValidProject(projects[pid])
               THEN Ended("generate_all", pid, 0, "ValidationError")
          ELSE Writing("generate_all", pid, 0, None, None, all_chapters(projects[pid], now))]
    /\ UNCHANGED <<projects, nextId, clock, created, call>>

\* The edit with word_count left as it was when a text is given.
apply_edit_stale_count(ch, title, text, time) ==
    LET t1 == IF title # None THEN [ch EXCEPT !.title = title] ELSE ch
        t2 == IF text # None THEN [t1 EXCEPT !.text = enforced[text]] ELSE t1
    IN [t2 EXCEPT !.updated_at = time]

\* Lines 341-346
apply_edit(ch, title, text, time) ==
    LET t1 == IF title # None THEN [ch EXCEPT !.title = title] ELSE ch
        t2 == IF text # None
              THEN [t1 EXCEPT !.text = enforced[text],
                              !.word_count = word_count_of[enforced[text]]]
              ELSE t1
    IN [t2 EXCEPT !.updated_at = time]

edit_chapter(r, pid, chapter_number, title, text) ==
    /\ Receive(r)
    /\ reqs' = [reqs EXCEPT ![r] =
          IF ~IsObjectId(pid) THEN Ended("edit_chapter", pid, chapter_number, "InvalidIdentifier")
          ELSE IF ~Found(pid) THEN Ended("edit_chapter", pid, chapter_number, "NotFound")
          ELSE IF index_of(projects[pid].chapters, chapter_number) = 0
               THEN Ended("edit_chapter", pid, chapter_number, "NotFound")
          ELSE Writing("edit_chapter", pid, chapter_number, title, text,
                       [projects[pid].chapters EXCEPT
                           ![index_of(projects[pid].chapters, chapter_number)] =
                               apply_edit(@, title, text, now)])]
    /\ UNCHANGED <<projects, nextId, clock, created, call>>

copy_chapter_text(r, pid, chapter_number) ==
    /\ Receive(r)
    /\ reqs' = [reqs EXCEPT ![r] = Ended("copy_chapter_text", pid, chapter_number,
          IF ~IsObjectId(pid) THEN "InvalidIdentifier"
          ELSE IF ~Found(pid) THEN "NotFound"
          ELSE IF index_of(projects[pid].chapters, chapter_number) = 0 THEN "NotFound"
          ELSE "ok")]
    /\ UNCHANGED <<projects, nextId, clock, created, call>>

\* A write that merges by chapter number: the stored chapters whose numbers the
\* computed list lacks are kept after it.
update_one_merging(r) ==
    /\ reqs[r].pc = "write"
    /\ projects' = [i \in DOMAIN projects |->
                       IF i = reqs[r].pid
                       THEN [projects[i] EXCEPT
                               !.chapters = reqs[r].chapters \o
                                   SelectSeq(@, LAMBDA c :
                                       \A k \in 1..Len(reqs[r].chapters) :
                                           reqs[r].chapters[k].number # c.number),
                               !.updated_at = now]
                       ELSE projects[i]]
    /\ reqs' = [reqs EXCEPT ![r] = Ended(reqs[r].op, reqs[r].pid, reqs[r].num, "ok")]
    /\ clock' = IF Found(reqs[r].pid) THEN clock + 1 ELSE clock
    /\ UNCHANGED <<nextId, issued, created, call>>

\* Lines 287-290, 318-321, 348-351: $set of the whole list, matched by _id alone;
\* a project deleted meanwhile matches nothing.  Then the handler returns.
update_one(r) ==
    /\ reqs[r].pc = "write"
    /\ projects' = [i \in DOMAIN projects |->
                       IF i = reqs[r].pid
                       THEN [projects[i] EXCEPT !.chapters = reqs[r].chapters,
                                                !.updated_at = now]
                       ELSE projects[i]]
    /\ reqs' = [reqs EXCEPT ![r] = Ended(reqs[r].op, reqs[r].pid, reqs[r].num, "ok")]
    /\ clock' = IF Found(reqs[r].pid) THEN clock + 1 ELSE clock
    /\ UNCHANGED <<nextId, issued, created, call>>

-----------------------------------------------------------------------------
(* The pure-function harness: a call drawn from bounded inputs, then applied *)

\* Whole words (with the whitespace after them) that the input texts repeat.
Units == {"ab ", "abcdef \n"}

LeadCounts == {0, 300, 1400}

Middles == {"", "end. ", " a.b\t"}

TailCounts == {0, 1, 400, 1600}

EnforceTexts ==
    { Rep(u, a) \o m \o Rep(u, b) :
        u \in Units, a \in LeadCounts, m \in Middles, b \in TailCounts }

Outlines ==
    { "",
      StoreOutline,
      "- a\n - b\n\n",
      "l0\nl1\nl2\nl3\nl4\nl5\nl6\nl7\nl8\nl9",
      "-\n \t \nx\ty  z.\n",
      Rep("w ", 1000),
      Rep("w ", 250) \o "end. " \o Rep("w ", 1500) }

GeneratorContexts ==
    { <<1, 3, "female", "general">>, <<6, 6, "male", "mafia">> }

NoCall == [fn |-> "none"]

Calls ==
    { [fn |-> "enforce_word_range", text |-> t, result |-> None, word_count |-> 0] :
        t \in EnforceTexts }
    \cup
    { [fn |-> "grounded_chapter_generator", outline |-> o, chapter_idx |-> c[1],
       chapter_total |-> c[2], pov |-> c[3], genre |-> c[4],
       result |-> None, word_count |-> 0] :
        o \in Outlines, c \in GeneratorContexts }

call_enforce_word_range ==
    /\ call.fn = "enforce_word_range"
    /\ call.result = None
    /\ call' \in { [call EXCEPT !.result = out, !.word_count = compute_word_count(out)] :
                   out \in {enforce_word_range(call.text)} }
    /\ UNCHANGED <<projects, nextId, clock, reqs, issued, created>>

call_grounded_chapter_generator ==
    /\ call.fn = "grounded_chapter_generator"
    /\ call.result = None
    /\ call' \in { [call EXCEPT !.result = out, !.word_count = compute_word_count(out)] :
                   out \in {grounded_chapter_generator(call.outline, call.chapter_idx,
                                call.chapter_total, call.pov, call.genre)} }
    /\ UNCHANGED <<projects, nextId, clock, reqs, issued, created>>

-----------------------------------------------------------------------------
(* Specifications *)

InitStore ==
    /\ projects = <<>>
    /\ nextId = 1
    /\ clock = 0
    /\ issued = 0
    /\ reqs = [r \in Workers |-> Idle]
    /\ created = <<>>

Init == InitStore /\ call = NoCall

\* The chapter numbers asked of a project: one is enough where none was created.
NumsFor(pid) == IF pid \in 1..MaxProjects THEN NumChoices ELSE {1}

\* The other arguments matter as little there.
OnlyFor(pid, choices) == IF pid \in 1..MaxProjects THEN choices ELSE {None}

Next ==
    \E r \in Workers :
        \/ \E c \in CountChoices, m \in PovModes : create_project(r, c, m)
        \/ list_projects(r)
        \/ \E pid \in IdChoices : get_project(r, pid)
        \/ \E pid \in IdChoices : delete_project(r, pid)
        \/ \E pid \in IdChoices : \E n \in NumsFor(pid), ui \in OnlyFor(pid, InstructionChoices) :
              generate_chapter(r, pid, n, ui)
        \/ \E pid \in IdChoices : generate_all(r, pid)
        \/ \E pid \in IdChoices : \E n \in NumsFor(pid), t \in OnlyFor(pid, TitleChoices), x \in OnlyFor(pid, TextChoices) :
              edit_chapter(r, pid, n, t, x)
        \/ \E pid \in IdChoices : \E n \in NumsFor(pid) : copy_chapter_text(r, pid, n)
        \/ update_one(r)

Spec == Init /\ [][Next]_vars

InitText == InitStore /\ call \in Calls

NextText == call_enforce_word_range \/ call_grounded_chapter_generator

SpecText == InitText /\ [][NextText]_vars

-----------------------------------------------------------------------------
(* Claims *)

InRange(n) == n >= target_min /\ n <= target_max

\* C1: whatever the input text, the output of enforce_word_range counts between
\* 1400 and 1800 whitespace-delimited words.
C1_EnforceInRange ==
    (call.fn = "enforce_word_range" /\ call.result # None) => InRange(call.word_count)

\* C2: whatever the outline, chapter index, pov and genre, the text returned by
\* grounded_chapter_generator counts between 1400 and 1800 words.
C2_GeneratorInRange ==
    (call.fn = "grounded_chapter_generator" /\ call.result # None) => InRange(call.word_count)

\* Worker r has just ended a request with an error.
Failed(r) ==
    /\ reqs'[r] # reqs[r]
    /\ reqs'[r].pc = "done"
    /\ reqs'[r].status # "ok"

\* Worker r has just fetched a project and computed the list it will write.
Computed(r, op) ==
    /\ reqs'[r] # reqs[r]
    /\ reqs'[r].pc = "write"
    /\ reqs'[r].op = op

\* Worker r has just written its list to a project that is still stored.
Wrote(r, op) ==
    /\ reqs[r].pc = "write"
    /\ reqs[r].op = op
    /\ reqs'[r].pc = "done"
    /\ reqs[r].pid \in DOMAIN projects

\* The list with the chapter numbered as ch replaced in place, or ch appended.
Upserted(chapters, ch) ==
    IF \E i \in 1..Len(chapters) : chapters[i].number = ch.number
    THEN [i \in 1..Len(chapters) |->
             IF chapters[i].number = ch.number THEN ch ELSE chapters[i]]
    ELSE chapters \o <<ch>>

\* C3: generate_chapter with a chapter number in [1, chapter_count] succeeds on
\* any existing project, with or without chapters, and the list it stores is
\* the list it found with that chapter replaced in place or appended.
C3_GenerateUpserts ==
    [][\A r \in Workers :
          /\ (/\ reqs'[r].pc = "done"
              /\ reqs'[r].op = "generate_chapter"
              /\ reqs'[r].status \notin {"InvalidIdentifier", "NotFound"}
              /\ reqs'[r].num \in 1..created[reqs'[r].pid])
             => reqs'[r].status = "ok"
          /\ Computed(r, "generate_chapter")
             => \E ch \in {reqs'[r].chapters[i] : i \in 1..Len(reqs'[r].chapters)} :
                   /\ ch.number = reqs'[r].num
                   /\ reqs'[r].chapters = Upserted(projects[reqs'[r].pid].chapters, ch)
          /\ Wrote(r, "generate_chapter")
             => projects'[reqs[r].pid].chapters = reqs[r].chapters
      ]_vars

\* C4: after a successful generate_all the stored list is exactly chapters
\* 1, 2, ..., chapter_count in that order, each as generated: nothing of the
\* list before it, and no edit, survives.
C4_GenerateAllReplaces ==
    [][\A r \in Workers :
          Wrote(r, "generate_all")
          => LET p == projects'[reqs[r].pid]
             IN /\ Len(p.chapters) = p.chapter_count
                /\ \A i \in 1..Len(p.chapters) :
                      /\ p.chapters[i].number = i
                      /\ p.chapters[i].title = "Chapter " \o ToString(i)
                      /\ p.chapters[i].text
                            = generated[<<p.outline, i, p.chapter_count, p.chapters[i].pov, "general">>]
      ]_vars

\* generate_all has succeeded on a project that already held chapters written
\* by two earlier requests.
C4_Witness ==
    \E r \in Workers :
        /\ reqs[r].pc = "done"
        /\ reqs[r].op = "generate_all"
        /\ reqs[r].status = "ok"
        /\ reqs[r].pid \in DOMAIN projects
        /\ Len(projects[reqs[r].pid].chapters) = projects[reqs[r].pid].chapter_count
        /\ projects[reqs[r].pid].chapters[1].created_at >= 3

\* C5: nothing guards the write of a handler: whatever the store holds by then,
\* update_one replaces the whole list by the one computed from the earlier
\* fetch, so that two simultaneous requests can both succeed and leave a list
\* without the change of one of them (C5_LostUpdate is reached).
C5_WriteIsUnguarded ==
    [][\A r \in Workers :
          (reqs[r].pc = "write" /\ reqs'[r] # reqs[r] /\ reqs[r].pid \in DOMAIN projects)
          => /\ reqs'[r].pc = "done"
             /\ reqs'[r].status = "ok"
             /\ projects'[reqs[r].pid].chapters = reqs[r].chapters
      ]_vars

\* Both workers generated a chapter of the same project, 1 and 2, both were
\* answered "ok", and the stored list holds one chapter only.
C5_LostUpdate ==
    \E r, s \in Workers :
        /\ reqs[r].pc = "done" /\ reqs[r].op = "generate_chapter" /\ reqs[r].status = "ok"
        /\ reqs[s].pc = "done" /\ reqs[s].op = "generate_chapter" /\ reqs[s].status = "ok"
        /\ reqs[r].pid = reqs[s].pid
        /\ reqs[r].num = 1
        /\ reqs[s].num = 2
        /\ reqs[r].pid \in DOMAIN projects
        /\ Len(projects[reqs[r].pid].chapters) = 1

\* C6: every stored project has the chapter_count given at creation, in [3, 6],
\* and its chapters have distinct numbers within [1, chapter_count].
C6_ChapterNumbers ==
    \A pid \in DOMAIN projects :
        LET p == projects[pid]
        IN /\ p.chapter_count \in 3..6
           /\ p.chapter_count = created[pid]
           /\ \A i \in 1..Len(p.chapters) : p.chapters[i].number \in 1..p.chapter_count
           /\ \A i, j \in 1..Len(p.chapters) :
                 p.chapters[i].number = p.chapters[j].number => i = j

\* A project holds all its chapters, one of them edited, and a request for a
\* chapter number out of range has been refused.
C6_Witness ==
    \E pid \in DOMAIN projects :
        /\ Len(projects[pid].chapters) = projects[pid].chapter_count
        /\ \E i \in 1..Len(projects[pid].chapters) :
              projects[pid].chapters[i].updated_at > projects[pid].chapters[i].created_at
        /\ \E r \in Workers : reqs[r].pc = "done" /\ reqs[r].status = "InvalidRange"

\* The chapter an edit of ch with these fields must give, by the claim.
EditedAsClaimed(new, ch, title, text) ==
    /\ new.number = ch.number
    /\ new.pov = ch.pov
    /\ new.created_at = ch.created_at
    /\ new.title = (IF title # None THEN title ELSE ch.title)
    /\ IF text # None
       THEN /\ new.text = enforced[text]
            /\ new.word_count = word_count_of[new.text]
       ELSE /\ new.text = ch.text
            /\ new.word_count = ch.word_count

\* C7: edit_chapter changes only the fields provided: a text becomes the
\* range-enforced text with its word count and leaves the title; a title
\* leaves text and word count; number, pov and every other chapter stay.
C7_EditFrame ==
    [][\A r \in Workers :
          /\ Computed(r, "edit_chapter")
             => LET old == projects[reqs'[r].pid].chapters
                    new == reqs'[r].chapters
                IN /\ Len(new) = Len(old)
                   /\ \A i \in 1..Len(old) :
                         IF old[i].number = reqs'[r].num
                         THEN EditedAsClaimed(new[i], old[i], reqs'[r].title, reqs'[r].text)
                         ELSE new[i] = old[i]
          /\ Wrote(r, "edit_chapter")
             => projects'[reqs[r].pid].chapters = reqs[r].chapters
      ]_vars

\* A stored chapter carries an edited text under its generated title, next to
\* a chapter no edit touched.
C7_Witness ==
    \E pid \in DOMAIN projects :
        \E i, j \in 1..Len(projects[pid].chapters) :
            /\ projects[pid].chapters[i].text = enforced[""]
            /\ projects[pid].chapters[i].title = "Chapter " \o ToString(projects[pid].chapters[i].number)
            /\ projects[pid].chapters[j].updated_at = projects[pid].chapters[j].created_at
            /\ i # j

\* The error each refused request must end in, by the claim.
ErrorAsClaimed(q) ==
    /\ (q.op \in {"get_project", "generate_chapter", "generate_all", "edit_chapter",
                  "copy_chapter_text"}
        /\ IsObjectId(q.pid) /\ ~Found(q.pid))
       => q.status = "NotFound"
    /\ (q.op = "generate_chapter" /\ Found(q.pid)
        /\ (q.num < 1 \/ q.num > projects[q.pid].chapter_count))
       => q.status = "InvalidRange"
    /\ (q.op \in {"edit_chapter", "copy_chapter_text"} /\ Found(q.pid)
        /\ \A i \in 1..Len(projects[q.pid].chapters) : projects[q.pid].chapters[i].number # q.num)
       => q.status = "NotFound"

\* C8: a request that ends in an error leaves every stored project as it was,
\* and the error is InvalidRange for a chapter number outside [1, chapter_count]
\* and NotFound for a missing chapter or an unmatched project.
C8_ErrorsChangeNothing ==
    [][\A r \in Workers :
          Failed(r) => (projects' = projects /\ ErrorAsClaimed(reqs'[r]))
      ]_vars

\* The same, without the kind of the error: no refused request writes.
ErrorsWriteNothing ==
    [][\A r \in Workers : Failed(r) => projects' = projects]_vars

\* C9: every stored chapter's pov is the one its project's pov_mode gives its
\* number: female, male, or for dual female when odd and male when even.
C9_StoredPov ==
    \A pid \in DOMAIN projects :
        \A i \in 1..Len(projects[pid].chapters) :
            LET c == projects[pid].chapters[i]
                mode == projects[pid].pov_mode
            IN /\ c.pov \in {"female", "male"}
               /\ mode = "female" => c.pov = "female"
               /\ mode = "male" => c.pov = "male"
               /\ (mode = "dual" /\ c.number % 2 = 1) => c.pov = "female"
               /\ (mode = "dual" /\ c.number % 2 = 0) => c.pov = "male"

\* A dual project holds an odd and an even chapter, one of them edited.
C9_Witness ==
    \E pid \in DOMAIN projects :
        /\ projects[pid].pov_mode = "dual"
        /\ \E i, j \in 1..Len(projects[pid].chapters) :
              /\ projects[pid].chapters[i].number % 2 = 1
              /\ projects[pid].chapters[j].number % 2 = 0
              /\ projects[pid].chapters[j].updated_at > projects[pid].chapters[j].created_at

\* C10: every stored project keeps the schema that generate_chapter and
\* generate_all validate on loading it, so that neither of them is refused for
\* what an accepted edit left behind.
C10_StoredProjectsValid ==
    /\ \A pid \in DOMAIN projects : ValidProject(projects[pid])
    /\ \A r \in Workers : reqs[r].status # "ValidationError" \/ reqs[r].op = "create_project"

====
